---- MODULE Spec2Model ----
(***************************************************************************)
(* Model of apt-cyg-clean.py: the package file name parser (cygpackage,    *)
(* chkversion, chkrelease, chkpackage, packname), the selector (clean)     *)
(* and the directory walk (forp, prune, rmtrash).                          *)
(*                                                                         *)
(* A Python string is a sequence of one-character strings; None is the     *)
(* value None below, which is no such sequence.                            *)
(***************************************************************************)
EXTENDS Integers, Sequences, FiniteSets, TLC

\* ------------------------------------------------------------------------
\* Bounds
\* ------------------------------------------------------------------------
MaxStem == 6
MaxName == 3
MaxVer == 3
MaxRel == 2
MaxSel == 3
NDirs == 2
MaxRuns == 2

\* ------------------------------------------------------------------------
\* Strings
\* ------------------------------------------------------------------------
None == <<"None">>

Digits == {"0", "1", "2", "3", "4", "5", "6", "7", "8", "9"}

\* Byte values of the characters the model uses (str comparison is bytewise).
Ord(c) ==
  CASE c = "\n" -> 10
    [] c = "-" -> 45
    [] c = "." -> 46
    [] c = "0" -> 48
    [] c = "1" -> 49
    [] c = "2" -> 50
    [] c = "9" -> 57
    [] c = "a" -> 97
    [] c = "b" -> 98
    [] c = "g" -> 103
    [] c = "r" -> 114
    [] c = "t" -> 116
    [] c = "z" -> 122

\* A numeric-minded order: the shorter string is the smaller one.
RECURSIVE StrLess_numeric(_, _)
StrLess_numeric(s, t) ==
  IF Len(s) # Len(t) THEN Len(s) < Len(t)
  ELSE IF s = <<>> THEN FALSE
  ELSE IF Head(s) = Head(t) THEN StrLess_numeric(Tail(s), Tail(t))
  ELSE Ord(Head(s)) < Ord(Head(t))

\* Python's < on str: first differing byte decides, a proper prefix is less.
RECURSIVE StrLess(_, _)
StrLess(s, t) ==
  IF s = <<>> THEN t # <<>>
  ELSE IF t = <<>> THEN FALSE
  ELSE IF Head(s) = Head(t) THEN StrLess(Tail(s), Tail(t))
  ELSE Ord(Head(s)) < Ord(Head(t))

StrLessEq(s, t) == s = t \/ StrLess(s, t)

Range(q) == {q[i] : i \in DOMAIN q}

endswith(s, suf) ==
  /\ Len(s) >= Len(suf)
  /\ SubSeq(s, Len(s) - Len(suf) + 1, Len(s)) = suf

\* Index of the last occurrence of sep in s, 0 if there is none.
rfind(s, sep) ==
  IF \E i \in 1..Len(s) : s[i] = sep
  THEN CHOOSE i \in 1..Len(s) : s[i] = sep /\ \A j \in (i+1)..Len(s) : s[j] # sep
  ELSE 0

\* str.split(sep, maxsplit): the split taken from the left instead.
RECURSIVE rsplit_left(_, _, _)
rsplit_left(s, sep, maxsplit) ==
  IF maxsplit = 0 \/ ~(\E i \in 1..Len(s) : s[i] = sep) THEN <<s>>
  ELSE LET i == CHOOSE k \in 1..Len(s) : s[k] = sep /\ \A j \in 1..(k - 1) : s[j] # sep
       IN <<SubSeq(s, 1, i - 1)>> \o rsplit_left(SubSeq(s, i + 1, Len(s)), sep, maxsplit - 1)

\* str.rsplit(sep, maxsplit): split from the right at most maxsplit times.
RECURSIVE rsplit(_, _, _)
rsplit(s, sep, maxsplit) ==
  LET i == rfind(s, sep) IN
  IF maxsplit = 0 \/ i = 0 THEN <<s>>
  ELSE Append(rsplit(SubSeq(s, 1, i - 1), sep, maxsplit - 1),
              SubSeq(s, i + 1, Len(s)))

\* ------------------------------------------------------------------------
\* Parser and validator
\* ------------------------------------------------------------------------
CygPackage(package, version, release) ==
  [package |-> package, version |-> version, release |-> release]

INVALID_PACKAGE == CygPackage(None, None, None)

SUFFIX == <<".", "t", "a", "r", ".", "b", "z", "2">>

\* re '$' matches at the end of the string and also just before a newline
\* that is the last character.
AtDollar(s, i) == i = Len(s) + 1 \/ (i = Len(s) /\ s[i] = "\n")

\* re.match(r'^\d[0-9\.]*$', ver)
chkversion(ver) ==
  \E e \in 2..(Len(ver) + 1) :
    /\ ver[1] \in Digits
    /\ \A i \in 2..(e - 1) : ver[i] \in Digits \cup {"."}
    /\ AtDollar(ver, e)

\* re.match(r'^[1-9]\d*$', rel)
chkrelease(rel) ==
  \E e \in 2..(Len(rel) + 1) :
    /\ rel[1] \in Digits \ {"0"}
    /\ \A i \in 2..(e - 1) : rel[i] \in Digits
    /\ AtDollar(rel, e)

chkpackage(parts) ==
  Len(parts) = 3 /\ chkversion(parts[2]) /\ chkrelease(parts[3])

cygpackage(s) ==
  IF ~endswith(s, SUFFIX) THEN INVALID_PACKAGE
  ELSE LET p == SubSeq(s, 1, Len(s) - Len(SUFFIX))
           pack == rsplit(p, "-", 2)
       IN IF chkpackage(pack) THEN CygPackage(pack[1], pack[2], pack[3])
          ELSE INVALID_PACKAGE

ispackfile(s) == cygpackage(s) # INVALID_PACKAGE

packname(p) ==
  IF p = INVALID_PACKAGE THEN <<>>
  ELSE p.package \o <<"-">> \o p.version \o <<"-">> \o p.release \o SUFFIX

\* ------------------------------------------------------------------------
\* Selector
\* ------------------------------------------------------------------------
\* list.sort(key=..., reverse=True): descending.
sort_reverse(s, K) ==
  LET RECURSIVE srt(_)
      srt(u) ==
        IF u = <<>> THEN <<>>
        ELSE LET t == srt(SubSeq(u, 1, Len(u) - 1))
                 x == u[Len(u)]
                 n == Cardinality({i \in 1..Len(t) : StrLessEq(K[x], K[t[i]])})
             IN SubSeq(t, 1, n) \o <<x>> \o SubSeq(t, n + 1, Len(t))
  IN srt(s)

\* list.sort(key=...): stable, ascending under the str order of the keys;
\* K maps each element of the list to its key.
sort(s, K) ==
  LET RECURSIVE srt(_)
      srt(u) ==
        IF u = <<>> THEN <<>>
        ELSE LET t == srt(SubSeq(u, 1, Len(u) - 1))
                 x == u[Len(u)]
                 n == Cardinality({i \in 1..Len(t) : StrLessEq(K[t[i]], K[x])})
             IN SubSeq(t, 1, n) \o <<x>> \o SubSeq(t, n + 1, Len(t))
  IN srt(s)

\* itertools.groupby: maximal runs of consecutive elements with equal K.
groupby(s, K) ==
  LET RECURSIVE grp(_)
      grp(u) ==
        IF u = <<>> THEN <<>>
        ELSE LET n == CHOOSE m \in 1..Len(u) :
                        /\ \A i \in 1..m : K[u[i]] = K[u[1]]
                        /\ (m < Len(u) => K[u[m + 1]] # K[u[1]])
             IN <<SubSeq(u, 1, n)>> \o grp(SubSeq(u, n + 1, Len(u)))
  IN grp(s)

\* key=lambda p:p.package, for the elements of list s
packagekey(s) == [p \in {s[i] : i \in DOMAIN s} |-> p.package]

\* key=lambda p:p.version+"-"+p.release, for the elements of list s
versionkey(s) == [p \in {s[i] : i \in DOMAIN s} |-> p.version \o <<"-">> \o p.release]

\* path.join(root, name) for a name without separators.
join(root, name) == <<root, name>>

\* vs.sort(key=...); p = vs.pop()  -- p and what is left of vs
latest(vs) == LET t == sort(vs, versionkey(vs)) IN t[Len(t)]

\* The list without the pop: the newest stays in it.
older_all(vs) == sort(vs, versionkey(vs))

\* Only the oldest of the list.
older_one(vs) == LET t == sort(vs, versionkey(vs)) IN SubSeq(t, 1, IF Len(t) > 1 THEN 1 ELSE 0)

older(vs) == LET t == sort(vs, versionkey(vs)) IN SubSeq(t, 1, Len(t) - 1)

\* The dict built by clean: kept package -> paths to remove.
RECURSIVE clean(_, _)
clean(root, pks) ==
  IF pks = <<>> THEN <<>>
  ELSE LET trash == clean(root, SubSeq(pks, 1, Len(pks) - 1))
           vs == pks[Len(pks)]
           p == latest(vs)
           rest == older(vs)
       IN IF rest # <<>>
          THEN [q \in DOMAIN trash \cup {p} |->
                  IF q = p THEN [i \in 1..Len(rest) |-> join(root, packname(rest[i]))]
                  ELSE trash[q]]
          ELSE trash

\* [f for f in files if ispackfile(f)]
RECURSIVE packfiles(_)
packfiles(files) ==
  IF files = <<>> THEN <<>>
  ELSE IF ispackfile(Head(files)) THEN <<Head(files)>> \o packfiles(Tail(files))
  ELSE packfiles(Tail(files))

\* A predicate that lets every directory through.
ispackdir_any(files) == TRUE

ispackdir(files) == \E i \in 1..Len(files) : ispackfile(files[i])

\* prune up to the call of rmtrash: the trash of one directory listing.
prunetrash(root, files) ==
  LET pfiles == packfiles(files)
      packages == [i \in 1..Len(pfiles) |-> cygpackage(pfiles[i])]
      pks == groupby(sort(packages, packagekey(packages)), packagekey(packages))
  IN clean(root, pks)

\* ------------------------------------------------------------------------
\* State
\* ------------------------------------------------------------------------
VARIABLES
  fname,    \* parser runs: the file name string
  ident,    \* parser runs: the CygPackage handed to packname
  parsed,   \* parser runs: the result of cygpackage(fname)
  ppc,      \* parser runs: "format", "parse" or "done"
  vs,       \* selector runs: the list of one package's versions
  kept,     \* selector runs: the package popped from the sorted list
  discards, \* selector runs: what is left of the list
  seltrash, \* selector runs: the dict clean returns for this one list
  spc,      \* selector runs: "select" or "done"
  fs,       \* file system: directory -> its entries, in the order it lists them
  verbose,  \* args.verbose
  run,      \* number of the current invocation of main
  di,       \* position of os.walk: the next directory to list
  pc,       \* "walk", "rmtrash", "remove", "done" or "aborted"
  root,     \* directory of the last listing os.walk produced (0: none yet)
  files,    \* entries of that listing
  trash,    \* dict handed to rmtrash: kept package -> paths to remove
  items,    \* keys of trash the removal loop has not reached yet, in dict order
  todo,     \* paths of the current key not yet handed to os.remove
  report,   \* what rmtrash_v printed for the current directory
  log       \* calls of os.remove so far: [run, path, ok]

parseVars == <<fname, ident, parsed, ppc>>
selVars == <<vs, kept, discards, seltrash, spc>>
walkVars == <<fs, verbose, run, di, pc, root, files, trash, items, todo, report, log>>
vars == <<parseVars, selVars, walkVars>>

ParseIdle ==
  /\ fname = <<>>
  /\ ident = INVALID_PACKAGE
  /\ parsed = INVALID_PACKAGE
  /\ ppc = "idle"

SelIdle ==
  /\ vs = <<>>
  /\ kept = INVALID_PACKAGE
  /\ discards = <<>>
  /\ seltrash = <<>>
  /\ spc = "idle"

WalkIdle ==
  /\ fs = <<>>
  /\ verbose = FALSE
  /\ run = 0
  /\ di = 0
  /\ pc = "idle"
  /\ root = 0
  /\ files = <<>>
  /\ trash = <<>>
  /\ items = <<>>
  /\ todo = <<>>
  /\ report = <<>>
  /\ log = <<>>

Strings(alphabet, n) == UNION {[1..k -> alphabet] : k \in 0..n}

\* ------------------------------------------------------------------------
\* Parser runs: cygpackage applied to a file name
\* ------------------------------------------------------------------------
StemAlphabet == {"a", "-", ".", "0", "1", "\n"}

Endings == {SUFFIX, <<".", "t", "a", "r", ".", "g", "z">>}

InitParse ==
  /\ \E stem \in Strings(StemAlphabet, MaxStem) : \E ending \in Endings :
       fname = stem \o ending
  /\ ident = INVALID_PACKAGE
  /\ parsed = INVALID_PACKAGE
  /\ ppc = "parse"
  /\ SelIdle /\ WalkIdle

Cygpackage ==
  /\ ppc = "parse"
  /\ parsed' = cygpackage(fname)
  /\ ppc' = "done"
  /\ UNCHANGED <<fname, ident, selVars, walkVars>>

NextParse == Cygpackage

SpecParse == InitParse /\ [][NextParse]_vars

\* ------------------------------------------------------------------------
\* Round-trip runs: packname, then cygpackage
\* ------------------------------------------------------------------------
Names == Strings({"a", "-"}, MaxName) \ {<<>>}

Versions == {<<d>> \o r : d \in {"0", "1"}, r \in Strings({"0", "1", "."}, MaxVer - 1)}

Releases == {<<"1">> \o r : r \in Strings({"0", "1"}, MaxRel - 1)}

InitRound ==
  /\ ident \in {CygPackage(n, v, r) : n \in Names, v \in Versions, r \in Releases}
                 \cup {INVALID_PACKAGE}
  /\ fname = <<>>
  /\ parsed = INVALID_PACKAGE
  /\ ppc = "format"
  /\ SelIdle /\ WalkIdle

Packname ==
  /\ ppc = "format"
  /\ fname' = packname(ident)
  /\ ppc' = "parse"
  /\ UNCHANGED <<ident, parsed, selVars, walkVars>>

NextRound == Packname \/ Cygpackage

SpecRound == InitRound /\ [][NextRound]_vars

\* ------------------------------------------------------------------------
\* Selector runs: one iteration of the loop of clean
\* ------------------------------------------------------------------------
SelVersions == {<<"9">>, <<"1", "0">>, <<"1">>, <<"1", ".", "1">>}

SelReleases == {<<"1">>, <<"2">>, <<"1", "0">>}

SelPackages == {CygPackage(<<"a">>, v, r) : v \in SelVersions, r \in SelReleases}

InitSelect ==
  /\ \E n \in 1..MaxSel : vs \in [1..n -> SelPackages]
  /\ kept = INVALID_PACKAGE
  /\ discards = <<>>
  /\ seltrash = <<>>
  /\ spc = "select"
  /\ ParseIdle /\ WalkIdle

Select ==
  /\ spc = "select"
  /\ kept' = latest(vs)
  /\ discards' = older(vs)
  /\ seltrash' = clean(1, <<vs>>)
  /\ spc' = "done"
  /\ UNCHANGED <<vs, parseVars, walkVars>>

NextSelect == Select

SpecSelect == InitSelect /\ [][NextSelect]_vars

\* ------------------------------------------------------------------------
\* The run of main: forp over the tree, prune and rmtrash per directory
\* ------------------------------------------------------------------------
File(stem) == stem \o SUFFIX

F_a_9_1 == File(<<"a", "-", "9", "-", "1">>)
F_a_10_1 == File(<<"a", "-", "1", "0", "-", "1">>)
F_a_9_2 == File(<<"a", "-", "9", "-", "2">>)
F_ab_1_1 == File(<<"a", "-", "b", "-", "1", "-", "1">>)
F_ab_1_2 == File(<<"a", "-", "b", "-", "1", "-", "2">>)
F_a_1_0 == File(<<"a", "-", "1", "-", "0">>)
F_a_9_3_gz == <<"a", "-", "9", "-", "3", ".", "t", "a", "r", ".", "g", "z">>

\* The directories the runs start from, each in the order it lists its files.
DirContents ==
  { <<>>,                                        \* no file at all
    <<F_a_1_0>>,                                 \* no package file
    <<F_a_9_1>>,                                 \* one package file
    <<F_a_9_1, F_a_10_1>>,                       \* 9 and 10 of one package
    <<F_ab_1_1, F_a_9_1>>,                       \* two packages, once each
    <<F_a_9_2, F_a_10_1, F_a_9_1>>,              \* three of one package
    <<F_a_9_1, F_ab_1_2, F_a_9_2, F_ab_1_1>>,    \* two packages, twice each
    <<F_a_9_3_gz, F_a_9_2, F_a_9_1>>,            \* another suffix among packages
    <<F_a_10_1, F_a_1_0, F_ab_1_1, F_a_9_1>> }   \* a mix

Dirs == 1..NDirs

\* The orders in which a dict with the keys S can iterate over them.
Listings(S) ==
  {f \in [1..Cardinality(S) -> S] : \A i, j \in DOMAIN f : f[i] = f[j] => i = j}

Init ==
  /\ fs \in [Dirs -> DirContents]
  /\ verbose \in BOOLEAN
  /\ run = 1
  /\ di = 1
  /\ pc = "walk"
  /\ root = 0
  /\ files = <<>>
  /\ trash = <<>>
  /\ items = <<>>
  /\ todo = <<>>
  /\ report = <<>>
  /\ log = <<>>
  /\ ParseIdle /\ SelIdle

\* os.walk lists directory di; pred is false, forp goes on to the next one.
SkipDir ==
  /\ pc = "walk" /\ di \in Dirs
  /\ ~ispackdir(fs[di])
  /\ root' = di
  /\ files' = fs[di]
  /\ di' = di + 1
  /\ UNCHANGED <<fs, verbose, run, pc, trash, items, todo, report, log>>
  /\ UNCHANGED <<parseVars, selVars>>

\* pred is true and prune returns early: exactly one package file.
PruneOne ==
  /\ pc = "walk" /\ di \in Dirs
  /\ ispackdir(fs[di])
  /\ Len(packfiles(fs[di])) = 1
  /\ root' = di
  /\ files' = fs[di]
  /\ di' = di + 1
  /\ UNCHANGED <<fs, verbose, run, pc, trash, items, todo, report, log>>
  /\ UNCHANGED <<parseVars, selVars>>

\* pred is true and prune reaches rmtrash(trash, args).
Prune ==
  /\ pc = "walk" /\ di \in Dirs
  /\ ispackdir(fs[di])
  /\ Len(packfiles(fs[di])) # 1
  /\ root' = di
  /\ files' = fs[di]
  /\ trash' = prunetrash(di, fs[di])
  /\ pc' = "rmtrash"
  /\ items' = <<>>
  /\ todo' = <<>>
  /\ report' = <<>>
  /\ UNCHANGED <<fs, verbose, run, di, log>>
  /\ UNCHANGED <<parseVars, selVars>>

\* A report that names the kept packages without the paths.
rmtrash_v_short(t, order) ==
  [i \in 1..Len(order) |->
     [package |-> order[i].package, version |-> order[i].version,
      release |-> order[i].release, paths |-> <<>>]]

\* What rmtrash_v prints, for the keys of the dict in iteration order.
rmtrash_v(t, order) ==
  [i \in 1..Len(order) |->
     [package |-> order[i].package, version |-> order[i].version,
      release |-> order[i].release, paths |-> t[order[i]]]]

\* rmtrash up to its loop: the optional report; the dict's iteration order
\* is fixed here, it is the same for the report and for the loop.
Rmtrash ==
  /\ pc = "rmtrash"
  /\ \E order \in Listings(DOMAIN trash) :
       /\ report' = IF verbose THEN rmtrash_v(trash, order) ELSE <<>>
       /\ items' = order
  /\ todo' = <<>>
  /\ pc' = "remove"
  /\ UNCHANGED <<fs, verbose, run, di, root, files, trash, log>>
  /\ UNCHANGED <<parseVars, selVars>>

\* The path the removal loop hands to os.remove next, and the loop's
\* position after it.
nextpath == IF todo # <<>> THEN Head(todo) ELSE Head(trash[Head(items)])

nexttodo == IF todo # <<>> THEN Tail(todo) ELSE Tail(trash[Head(items)])

nextitems == IF todo # <<>> THEN items ELSE Tail(items)

\* os.remove(f) succeeds.
Remove ==
  /\ pc = "remove"
  /\ todo # <<>> \/ items # <<>>
  /\ LET f == nextpath IN
       /\ f[2] \in Range(fs[f[1]])
       /\ fs' = [fs EXCEPT ![f[1]] = SelectSeq(@, LAMBDA x : x # f[2])]
       /\ log' = Append(log, [run |-> run, path |-> f, ok |-> TRUE])
  /\ todo' = nexttodo
  /\ items' = nextitems
  /\ UNCHANGED <<verbose, run, di, pc, root, files, trash, report>>
  /\ UNCHANGED <<parseVars, selVars>>

\* os.remove(f) raises and the loop goes on with the next path.
RemoveFails_swallowed ==
  /\ pc = "remove"
  /\ todo # <<>> \/ items # <<>>
  /\ log' = Append(log, [run |-> run, path |-> nextpath, ok |-> FALSE])
  /\ todo' = nexttodo
  /\ items' = nextitems
  /\ UNCHANGED <<fs, verbose, run, di, pc, root, files, trash, report>>
  /\ UNCHANGED <<parseVars, selVars>>

\* os.remove(f) raises; nothing catches it, the run ends.
RemoveFails ==
  /\ pc = "remove"
  /\ todo # <<>> \/ items # <<>>
  /\ log' = Append(log, [run |-> run, path |-> nextpath, ok |-> FALSE])
  /\ pc' = "aborted"
  /\ UNCHANGED <<fs, verbose, run, di, root, files, trash, items, todo, report>>
  /\ UNCHANGED <<parseVars, selVars>>

\* The loop of rmtrash is over: prune returns, forp asks os.walk for more.
RmtrashReturns ==
  /\ pc = "remove"
  /\ todo = <<>> /\ items = <<>>
  /\ pc' = "walk"
  /\ di' = di + 1
  /\ UNCHANGED <<fs, verbose, run, root, files, trash, items, todo, report, log>>
  /\ UNCHANGED <<parseVars, selVars>>

\* os.walk is exhausted: forp and main return.
Finish ==
  /\ pc = "walk" /\ di \notin Dirs
  /\ pc' = "done"
  /\ UNCHANGED <<fs, verbose, run, di, root, files, trash, items, todo, report, log>>
  /\ UNCHANGED <<parseVars, selVars>>

\* The program is started again on the same root with the same arguments.
Rerun ==
  /\ pc = "done" /\ run < MaxRuns
  /\ run' = run + 1
  /\ di' = 1
  /\ pc' = "walk"
  /\ UNCHANGED <<fs, verbose, root, files, trash, items, todo, report, log>>
  /\ UNCHANGED <<parseVars, selVars>>

Next ==
  \/ SkipDir
  \/ PruneOne
  \/ Prune
  \/ Rmtrash
  \/ Remove
  \/ RemoveFails
  \/ RmtrashReturns
  \/ Finish
  \/ Rerun

Spec == Init /\ [][Next]_vars

TypeOK ==
  /\ pc \in {"walk", "rmtrash", "remove", "done", "aborted"}
  /\ di \in 1..(NDirs + 1)
  /\ run \in 1..MaxRuns

\* ------------------------------------------------------------------------
\* Grammar of the naming convention, stated directly on the characters
\* ------------------------------------------------------------------------
GrammarVersion(s) ==
  /\ Len(s) >= 1
  /\ s[1] \in Digits
  /\ \A i \in 2..Len(s) : s[i] \in Digits \cup {"."}

GrammarRelease(s) ==
  /\ Len(s) >= 1
  /\ s[1] \in Digits \ {"0"}
  /\ \A i \in 2..Len(s) : s[i] \in Digits

NoHyphen(s) == \A i \in 1..Len(s) : s[i] # "-"

\* s is <name>-<version>-<release>.tar.bz2 for a version and a release of
\* the grammar (the name is whatever precedes the second hyphen from the right).
GrammarFileName(s) ==
  /\ endswith(s, SUFFIX)
  /\ LET p == SubSeq(s, 1, Len(s) - Len(SUFFIX)) IN
     \E i \in 1..Len(p) : \E j \in (i+1)..Len(p) :
       /\ p[i] = "-" /\ p[j] = "-"
       /\ NoHyphen(SubSeq(p, i + 1, j - 1))
       /\ NoHyphen(SubSeq(p, j + 1, Len(p)))
       /\ GrammarVersion(SubSeq(p, i + 1, j - 1))
       /\ GrammarRelease(SubSeq(p, j + 1, Len(p)))

\* C5: cygpackage(s) is non-Invalid exactly when s ends with .tar.bz2 and
\* the rest splits from the right into three parts whose version and
\* release parts follow the grammar (digits and dots only / positive
\* integer without leading zero).
C5_ParseIffGrammar ==
  ppc = "done" => ((parsed # INVALID_PACKAGE) <=> GrammarFileName(fname))

\* C4: the result of cygpackage is the Invalid sentinel or a fully valid
\* identity: non-empty name, version and release of the grammar.
C4_NoPartialIdentity ==
  ppc = "done" =>
    \/ parsed = INVALID_PACKAGE
    \/ /\ parsed.package # <<>>
       /\ parsed.package # None
       /\ GrammarVersion(parsed.version)
       /\ GrammarRelease(parsed.release)

\* C3: parsing the canonical file name of a valid identity gives the
\* identity back, and the canonical file name of Invalid is empty.
C3_RoundTrip ==
  /\ (ppc # "format" /\ ident = INVALID_PACKAGE) => fname = <<>>
  /\ (ppc = "done" /\ ident # INVALID_PACKAGE) => parsed = ident

C3_Witness ==
  /\ ppc = "done"
  /\ ident # INVALID_PACKAGE
  /\ \E i \in 1..Len(ident.package) : ident.package[i] = "-"
  /\ parsed = ident

\* ------------------------------------------------------------------------
\* The order on strings and the newest file of a package, stated directly
\* ------------------------------------------------------------------------
\* s <= t in the lexicographic order of the characters' byte values.
LexLE(s, t) ==
  \/ s = t
  \/ \E i \in 1..Len(t) :
       /\ \A j \in 1..(i - 1) : j <= Len(s) /\ s[j] = t[j]
       /\ (i > Len(s) \/ (i <= Len(s) /\ Ord(s[i]) < Ord(t[i])))

VersionRelease(p) == p.version \o <<"-">> \o p.release

IsPackage(f) == cygpackage(f) # INVALID_PACKAGE

\* The parse of every file of listing S.
Parses(S) == [f \in S |-> cygpackage(f)]

\* f is the newest file of its package among the files of listing S.
Newest(f, S) ==
  LET P == Parses(S) IN
  /\ f \in S /\ P[f] # INVALID_PACKAGE
  /\ \A g \in S : (P[g] # INVALID_PACKAGE /\ P[g].package = P[f].package) =>
       LexLE(VersionRelease(P[g]), VersionRelease(P[f]))

\* The files of listing S that are package files and not the newest of
\* their package.
Outdated(S) == {f \in S : IsPackage(f) /\ ~Newest(f, S)}

\* Paths handed to os.remove for directory d in invocation r, all and
\* those removed.
Attempted(r, d) == {e.path : e \in {x \in Range(log) : x.run = r /\ x.path[1] = d}}

Removed(r, d) ==
  {e.path : e \in {x \in Range(log) : x.run = r /\ x.path[1] = d /\ x.ok}}

TrashPaths == UNION {Range(trash[k]) : k \in DOMAIN trash}

ReportPaths == UNION {Range(report[i].paths) : i \in DOMAIN report}

\* C1: when prune has returned for a directory (every deletion having
\* succeeded), each package that had a file in the listing has exactly one
\* file left there, the one with the greatest version-release string.
C1_NewestRemains ==
  (pc \in {"walk", "done"} /\ root \in Dirs) =>
    LET P == Parses(Range(files) \cup Range(fs[root])) IN
    \A f \in Range(files) : P[f] # INVALID_PACKAGE =>
      LET left == {i \in DOMAIN fs[root] :
                     /\ P[fs[root][i]] # INVALID_PACKAGE
                     /\ P[fs[root][i]].package = P[f].package}
      IN /\ Cardinality(left) = 1
         /\ \A i \in left : Newest(fs[root][i], Range(files))

C1_Witness ==
  /\ pc = "walk" /\ run = 1
  /\ root \in Dirs
  /\ Range(files) = {F_a_9_1, F_a_10_1, F_a_9_2}
  /\ fs[root] = <<F_a_9_2>>

\* C2: one iteration of clean keeps the identity whose version-release
\* string is greatest in the lexicographic order of characters (9-1 beats
\* 10-1) and discards all the others; a single identity is kept and
\* nothing is discarded.
C2_KeepsLexMax ==
  spc = "done" =>
    /\ kept \in Range(vs)
    /\ \A q \in Range(vs) : LexLE(VersionRelease(q), VersionRelease(kept))
    /\ Len(discards) = Len(vs) - 1
    /\ \A q \in Range(vs) :
         Cardinality({i \in DOMAIN discards : discards[i] = q})
           = Cardinality({i \in DOMAIN vs : vs[i] = q}) - (IF q = kept THEN 1 ELSE 0)
    /\ (Len(vs) = 1 => kept = vs[1] /\ discards = <<>> /\ DOMAIN seltrash = {})
    /\ (Len(vs) > 1 =>
          /\ DOMAIN seltrash = {kept}
          /\ seltrash[kept] = [i \in DOMAIN discards |-> <<1, packname(discards[i])>>])
    /\ (Range(vs) = {CygPackage(<<"a">>, <<"9">>, <<"1">>),
                     CygPackage(<<"a">>, <<"1", "0">>, <<"1">>)}
          => kept = CygPackage(<<"a">>, <<"9">>, <<"1">>))

C2_Witness ==
  /\ spc = "done"
  /\ vs = << CygPackage(<<"a">>, <<"9">>, <<"1">>),
             CygPackage(<<"a">>, <<"1", "0">>, <<"1">>),
             CygPackage(<<"a">>, <<"1">>, <<"1", "0">>) >>
  /\ kept = CygPackage(<<"a">>, <<"9">>, <<"1">>)
  /\ Len(discards) = 2

\* C6: what is handed to os.remove is a file of the listing of the
\* directory being pruned, a package file, and not the newest of its
\* package; no other file of any directory changes and none is created.
C6_Frame ==
  [][ /\ \A d \in Dirs : Range(fs'[d]) \subseteq Range(fs[d])
      /\ \A d \in Dirs : \A f \in Range(fs[d]) \ Range(fs'[d]) :
           /\ d = root
           /\ log' = Append(log, [run |-> run, path |-> <<d, f>>, ok |-> TRUE])
      /\ log' # log =>
           /\ Len(log') = Len(log) + 1
           /\ SubSeq(log', 1, Len(log)) = log
           /\ LET f == log'[Len(log')].path IN
                /\ f[1] = root
                /\ f[2] \in Range(files)
                /\ IsPackage(f[2])
                /\ ~Newest(f[2], Range(files)) ]_vars

C6_Witness ==
  /\ pc = "walk"
  /\ root = 2
  /\ Range(files) = {F_a_9_1, F_a_10_1, F_ab_1_1, F_a_1_0}
  /\ Range(fs[2]) = {F_a_9_1, F_ab_1_1, F_a_1_0}
  /\ fs[1] = <<F_a_1_0>>

\* C7: a failing os.remove ends the run there: it is the last call of
\* os.remove, nothing changes afterwards, what was removed stays removed,
\* and no path is handed to os.remove twice in a run.
C7_FailureEndsRun ==
  [][ /\ (log' # log /\ ~log'[Len(log')].ok) => pc' = "aborted"
      /\ pc = "aborted" => (pc' = "aborted" /\ log' = log /\ fs' = fs)
      /\ \A i \in 1..(Len(log') - 1) : log'[i].ok
      /\ \A i \in DOMAIN log' : log'[i].ok => log'[i].path[2] \notin Range(fs'[log'[i].path[1]])
      /\ \A i, j \in DOMAIN log' :
           (log'[i].run = log'[j].run /\ log'[i].path = log'[j].path) => i = j ]_vars

C7_Witness ==
  /\ pc = "aborted"
  /\ Len(log) = 2
  /\ log[1].ok /\ ~log[2].ok
  /\ log[1].path[1] = 1 /\ log[2].path[1] = 2
  /\ TrashPaths \ Attempted(run, root) # {}
  /\ log[1].path[2] \notin Range(fs[1])

\* C8: with verbose on, the report of the kept packages and of the paths
\* to remove is printed before the first deletion in the directory and
\* names exactly the paths rmtrash removes; with verbose off nothing is
\* printed and the same files are removed.
C8_ReportMatchesRemoval ==
  /\ pc = "rmtrash" => (report = <<>> /\ Attempted(run, root) = {})
  /\ pc \in {"remove", "aborted"} =>
       /\ Attempted(run, root) \subseteq TrashPaths
       /\ verbose =>
            /\ ReportPaths = TrashPaths
            /\ {<<report[i].package, report[i].version, report[i].release>> :
                  i \in DOMAIN report}
                 = {<<k.package, k.version, k.release>> : k \in DOMAIN trash}
            /\ \A i \in DOMAIN report :
                 report[i].paths
                   = trash[CygPackage(report[i].package, report[i].version,
                                      report[i].release)]
       /\ ~verbose => report = <<>>
  /\ (pc = "remove" /\ items = <<>> /\ todo = <<>>) =>
       /\ Removed(run, root) = {<<root, f>> : f \in Outdated(Range(files))}
       /\ verbose => ReportPaths = Removed(run, root)

C8_Witness ==
  /\ verbose
  /\ pc = "remove" /\ items = <<>> /\ todo = <<>>
  /\ Len(report) = 2
  /\ Cardinality(Removed(run, root)) = 2

\* C9: directories are handled one after another in walk order; the next
\* listing is read only when the deletions of the current directory are
\* over; prune runs only for a listing with a package file; the trash of a
\* directory is determined by its own listing.
C9_OneDirectoryAtATime ==
  /\ [](pc \in {"rmtrash", "remove", "aborted"} =>
          /\ root = di
          /\ Range(files) = Range(fs[root]) \cup {p[2] : p \in Removed(run, root)}
          /\ \E f \in Range(files) : IsPackage(f)
          /\ \A p \in TrashPaths : p[1] = root /\ p[2] \in Range(files))
  /\ [](pc = "rmtrash" =>
          \A order \in Listings(Range(files)) : trash = prunetrash(root, order))
  /\ [][ /\ (root' # root \/ files' # files \/ di' # di) =>
              /\ pc \in {"walk", "done"} \/ (pc = "remove" /\ items = <<>> /\ todo = <<>>)
              /\ Attempted(run, root) \subseteq Removed(run, root)
         /\ trash' # trash => (pc = "walk" /\ pc' = "rmtrash")
         /\ root' # root => (root' = di /\ root' = IF root = NDirs THEN 1 ELSE root + 1)
         /\ log' # log => log'[Len(log')].path[1] = root ]_vars

C9_Witness ==
  /\ pc = "remove"
  /\ root = 2
  /\ Len(log) = 3
  /\ log[1].path[1] = 1 /\ log[2].path[1] = 1 /\ log[3].path[1] = 2
  /\ todo # <<>>

\* C10: after a complete run a further run hands nothing to os.remove:
\* the dict of every directory is empty.
C10_Idempotent ==
  /\ \A i \in DOMAIN log : log[i].run = 1
  /\ (run > 1 /\ pc \in {"rmtrash", "remove"}) => DOMAIN trash = {}
  /\ (run > 1 /\ root \in Dirs /\ di > 1) =>
       LET P == Parses(Range(fs[root])) IN
       \A f, g \in Range(fs[root]) :
         (P[f] # INVALID_PACKAGE /\ P[f].package = P[g].package) => f = g

C10_Witness ==
  /\ run = 2
  /\ pc = "rmtrash"
  /\ Len(log) >= 3

====
